---- MODULE Spec2Model ----
(***************************************************************************)
(* FranchiserController: the custodial contract that holds ETH, keeps the  *)
(* mining configuration and forwards guarded mint calls to the Rig.        *)
(*                                                                         *)
(* Every transaction is one atomic step (an EVM transaction either commits *)
(* all of its effects or reverts all of them).  Each contract function is  *)
(* an operator from the storage before the call and the call's inputs to a *)
(* receipt: success flag, revert reason, storage after the call, events.   *)
(*                                                                         *)
(* Units.  TLC integers are 32 bits wide, so the three large literals of   *)
(* the source are scaled down, keeping their arithmetic relations:         *)
(*   1 gwei  (1e9 wei)  is GWEI wei,                                       *)
(*   1 ether (1e18 wei) is WAD = GWEI * GWEI wei,                          *)
(*   type(uint256).max  is MAX_UINT.                                       *)
(* Times are in seconds, unscaled.                                         *)
(***************************************************************************)
EXTENDS Integers, Sequences, FiniteSets, TLC

VARIABLES
    config,             \* Config public config
    lastMintTimestamp,  \* uint256 public lastMintTimestamp
    balance,            \* address(this).balance
    roles,              \* AccessControl role membership
    currentPrice,       \* Rig: _currentPrice
    epochId,            \* Rig: _epochId
    now,                \* block.timestamp of the block being built
    last,               \* receipt of the most recent transaction sent to the Controller
    lastSuccess,        \* history: block time of the last successful executeMint and
                        \* the cooldownPeriod in force at it
    monitor             \* the Monitor processes: run() loop, checkAndMine() calls, stats

vars == <<config, lastMintTimestamp, balance, roles, currentPrice, epochId, now, last,
          lastSuccess, monitor>>

-----------------------------------------------------------------------------
(* Units and limits of the source *)

GWEI == 10
WAD == 100
MAX_UINT == 2147483647
ONE_DAY == 86400

MIN_PROFIT_MARGIN == 1000

DefaultMaxMintAmount == 100 * WAD
DefaultMinMintAmount == 1 * WAD
DefaultCooldownPeriod == 300
DefaultMaxGasPrice == 10 * GWEI

OWNER_ROLE == "OWNER_ROLE"
MANAGER_ROLE == "MANAGER_ROLE"

-----------------------------------------------------------------------------
(* Bounds of the model *)

MaxBalance == 2          \* the Controller never holds more than this many wei
MaxTokenBalance == 1     \* largest ERC20 balance a token reports for the Controller
DeployTime == 1700000000 \* block.timestamp of the deployment block

-----------------------------------------------------------------------------
(* Inputs *)

ZeroAddress == "0x0"
Accounts == {"owner", "manager", "user"}
Recipients == {ZeroAddress, "owner", "user"}
MintRecipients == {"user"}
Viewers == {"user"}
TokenRecipients == {ZeroAddress, "user"}
Tokens == {ZeroAddress, "token"}

PriceInputs == {1, 2}
EpochInputs == {1, 2}
MaxPriceInputs == {1, 2}
MarginInputs == {1000, 2000}
AmountInputs == {0, WAD, WAD + (WAD \div 5), 2 * WAD, 2 * WAD + 1}
GasPriceInputs == {GWEI, 10 * GWEI + 1, DefaultMaxGasPrice * GWEI + 1}
WithdrawInputs == 0 .. MaxBalance
TokenAmountInputs == 0 .. MaxTokenBalance
BlockTimes == {DeployTime + DefaultCooldownPeriod - 1, DeployTime + DefaultCooldownPeriod}

(* The configurations an Owner submits: a reference configuration and the  *)
(* ones that differ from it in one field, valid and invalid.               *)
ReferenceConfig ==
    [maxPricePerToken |-> 2,
     minProfitMargin |-> 1000,
     maxMintAmount |-> 2 * WAD,
     minMintAmount |-> DefaultMinMintAmount,
     autoMiningEnabled |-> TRUE,
     cooldownPeriod |-> DefaultCooldownPeriod,
     maxGasPrice |-> 10]

ConfigInputs ==
    {ReferenceConfig}
    \cup {[ReferenceConfig EXCEPT !.maxPricePerToken = v] : v \in MaxPriceInputs}
    \cup {[ReferenceConfig EXCEPT !.minProfitMargin = v] : v \in MarginInputs}
    \cup {[ReferenceConfig EXCEPT !.maxMintAmount = v] : v \in {WAD - 1, DefaultMaxMintAmount}}
    \cup {[ReferenceConfig EXCEPT !.minMintAmount = v] : v \in {0, 2 * WAD + 1}}
    \cup {[ReferenceConfig EXCEPT !.autoMiningEnabled = v] : v \in BOOLEAN}
    \cup {[ReferenceConfig EXCEPT !.cooldownPeriod = v] : v \in {0, ONE_DAY, ONE_DAY + 1}}
    \cup {[ReferenceConfig EXCEPT !.maxGasPrice = v] : v \in {0, MAX_UINT}}

-----------------------------------------------------------------------------
(* Receipts *)

Event(name, args) == [name |-> name, args |-> args]

Storage == [config |-> config, lastMintTimestamp |-> lastMintTimestamp, balance |-> balance]

(* The result of a call: its outcome, the storage it leaves, the events it  *)
(* emitted and the ETH it sent out of the Controller.                      *)
Revert(w, reason) == [ok |-> FALSE, err |-> reason, w |-> w, events |-> <<>>, sent |-> <<>>]

Success(w, events) == [ok |-> TRUE, err |-> "", w |-> w, events |-> events, sent |-> <<>>]

(* A call that went through has sent value to an address: the Rig's        *)
(* mint{value: cost}, the recipient's call{value: withdrawAmount}.         *)
franchiserRig == "rig"

Sent(r, to, value) == IF r.ok THEN [r EXCEPT !.sent = <<[to |-> to, value |-> value]>>] ELSE r

(* A receipt names the call, its outcome and the events it emitted, and    *)
(* keeps the storage the call started from; the answer to a view call      *)
(* carries the values the view returned.                                   *)
Receipt(op, sender, r, before) ==
    [op |-> op, sender |-> sender, ok |-> r.ok, err |-> r.err, events |-> r.events,
     before |-> before, ret |-> <<>>, sent |-> r.sent]

Answer(op, sender, ret, before) ==
    [op |-> op, sender |-> sender, ok |-> TRUE, err |-> "", events |-> <<>>,
     before |-> before, ret |-> ret, sent |-> <<>>]

NoCall ==
    [op |-> "none", sender |-> "", ok |-> TRUE, err |-> "", events |-> <<>>,
     before |-> [config |-> ReferenceConfig, lastMintTimestamp |-> 0, balance |-> 0],
     ret |-> <<>>, sent |-> <<>>]

-----------------------------------------------------------------------------
(* Checked uint256 arithmetic (Solidity ^0.8): a product that leaves the   *)
(* type reverts with Panic(0x11), a division by zero with Panic(0x12).     *)

MulOverflows(a, b) == a # 0 /\ b > MAX_UINT \div a

hasRole(role, account) == account \in roles[role]

-----------------------------------------------------------------------------
(* Rig *)

quotePrice == currentPrice

quoteReverts(amount) == MulOverflows(currentPrice, amount)

quote(amount) == (currentPrice * amount) \div WAD

currentEpochId == epochId

mint(value, amount, rigReverts) == (~rigReverts) /\ value >= quote(amount)

-----------------------------------------------------------------------------
(* FranchiserController.  `entered` is ReentrancyGuard's status at the     *)
(* moment of the call: FALSE for a transaction's outermost call, TRUE for  *)
(* a call made while a nonReentrant function is executing.                 *)

Unauthorized == "AccessControlUnauthorizedAccount"
Reentrant == "ReentrancyGuardReentrantCall"
Overflow == "Panic(0x11)"
DivisionByZero == "Panic(0x12)"
RigReverted == "Rig reverted"

constructor(maxPricePerToken, minProfitMargin) ==
    [maxPricePerToken |-> maxPricePerToken,
     minProfitMargin |-> minProfitMargin,
     maxMintAmount |-> DefaultMaxMintAmount,
     minMintAmount |-> DefaultMinMintAmount,
     autoMiningEnabled |-> TRUE,
     cooldownPeriod |-> DefaultCooldownPeriod,
     maxGasPrice |-> DefaultMaxGasPrice]

checkProfitability_ThresholdExclusive(w) ==
    IF quotePrice >= w.config.maxPricePerToken
    THEN [isProfitable |-> FALSE, currentPrice |-> quotePrice, recommendedAmount |-> 0]
    ELSE [isProfitable |-> TRUE, currentPrice |-> quotePrice,
          recommendedAmount |-> w.config.maxMintAmount]
checkProfitability(w) ==
    LET price == quotePrice
        isProfitable == price <= w.config.maxPricePerToken
    IN IF price > w.config.maxPricePerToken
       THEN [isProfitable |-> FALSE, currentPrice |-> price, recommendedAmount |-> 0]
       ELSE [isProfitable |-> isProfitable,
             currentPrice |-> price,
             recommendedAmount |-> IF isProfitable THEN w.config.maxMintAmount ELSE 0]

onlyRole_AnyRole(role, sender) == \E held \in DOMAIN roles : hasRole(held, sender)
onlyRole(role, sender) == hasRole(role, sender)

(* require(config.autoMiningEnabled, "Auto mining disabled") *)
MiningEnabled_Always(c) == TRUE
MiningEnabled(c) == c.autoMiningEnabled

AmountInBounds_ZeroRefused(c, amount) ==
    amount > 0 /\ amount >= c.minMintAmount /\ amount <= c.maxMintAmount

AmountInBounds(c, amount) == amount >= c.minMintAmount /\ amount <= c.maxMintAmount

CooldownElapsed_Always(w) == TRUE

CooldownElapsed_Strict(w) == now > w.lastMintTimestamp + w.config.cooldownPeriod
CooldownElapsed(w) == now >= w.lastMintTimestamp + w.config.cooldownPeriod

GasPriceOk(c, gasprice) == gasprice <= c.maxGasPrice * GWEI

Minted_WholeBalanceSent(w, cost) == [w EXCEPT !.balance = 0, !.lastMintTimestamp = now]
Minted_TimestampNotStored(w, cost) == [w EXCEPT !.balance = w.balance - cost]
Minted(w, cost) == [w EXCEPT !.balance = w.balance - cost, !.lastMintTimestamp = now]

(* IRig(franchiserRig).mint{value: cost}(recipient, amount): a revert of    *)
(* the Rig reverts the whole call.                                         *)
Forward_RigFailureIgnored(w, minted, events, rigAccepted) == Success(minted, events)
Forward(w, minted, events, rigAccepted) ==
    IF rigAccepted THEN Success(minted, events) ELSE Revert(w, RigReverted)

executeMint(w, sender, recipient, amount, gasprice, rigReverts, entered) ==
    LET c == w.config
        cost == quote(amount)
        pricePerToken == (cost * WAD) \div amount
    IN IF ~onlyRole(MANAGER_ROLE, sender) THEN Revert(w, Unauthorized)
       ELSE IF entered THEN Revert(w, Reentrant)
       ELSE IF ~MiningEnabled(c) THEN Revert(w, "Auto mining disabled")
       ELSE IF ~AmountInBounds(c, amount) THEN Revert(w, "Amount out of bounds")
       ELSE IF ~CooldownElapsed(w) THEN Revert(w, "Cooldown active")
       ELSE IF MulOverflows(c.maxGasPrice, GWEI) THEN Revert(w, Overflow)
       ELSE IF ~GasPriceOk(c, gasprice) THEN Revert(w, "Gas price too high")
       ELSE IF quoteReverts(amount) THEN Revert(w, RigReverted)
       ELSE IF ~(w.balance >= cost) THEN Revert(w, "Insufficient ETH balance")
       ELSE IF MulOverflows(cost, WAD) THEN Revert(w, Overflow)
       ELSE IF amount = 0 THEN Revert(w, DivisionByZero)
       ELSE IF ~(pricePerToken <= c.maxPricePerToken) THEN Revert(w, "Price too high")
       ELSE Sent(Forward(w, Minted(w, cost),
                         <<Event("TokensMinted", <<recipient, amount, cost, currentEpochId>>)>>,
                         mint(cost, amount, rigReverts)),
                 franchiserRig, cost)

ConfigArgs(c) ==
    <<c.maxPricePerToken, c.minProfitMargin, c.maxMintAmount, c.minMintAmount,
      c.autoMiningEnabled, c.cooldownPeriod, c.maxGasPrice>>

(* The three require statements of updateConfig: the reason of the first  *)
(* that fails, "" when all pass.                                           *)
ValidMintAmounts(c) == c.maxMintAmount >= c.minMintAmount

ValidCooldown_OneSecondLate(c) == c.cooldownPeriod <= ONE_DAY + 1
ValidCooldown(c) == c.cooldownPeriod <= ONE_DAY

ValidGasPrice_ZeroAllowed(c) == c.maxGasPrice >= 0
ValidGasPrice(c) == c.maxGasPrice > 0

ConfigError(c) ==
    IF ~ValidMintAmounts(c) THEN "Invalid mint amounts"
    ELSE IF ~ValidCooldown(c) THEN "Cooldown too long"
    ELSE IF ~ValidGasPrice(c) THEN "Invalid gas price"
    ELSE ""

updateConfig_MarginNotStored(w, sender, c) ==
    IF ~onlyRole(OWNER_ROLE, sender) THEN Revert(w, Unauthorized)
    ELSE IF ConfigError(c) # "" THEN Revert(w, ConfigError(c))
    ELSE Success([w EXCEPT !.config = [c EXCEPT !.minProfitMargin = w.config.minProfitMargin]],
                 <<Event("ConfigUpdated", ConfigArgs(c))>>)

updateConfig(w, sender, c) ==
    IF ~onlyRole(OWNER_ROLE, sender) THEN Revert(w, Unauthorized)
    ELSE IF ConfigError(c) # "" THEN Revert(w, ConfigError(c))
    ELSE Success([w EXCEPT !.config = [maxPricePerToken |-> c.maxPricePerToken,
                                       minProfitMargin |-> c.minProfitMargin,
                                       maxMintAmount |-> c.maxMintAmount,
                                       minMintAmount |-> c.minMintAmount,
                                       autoMiningEnabled |-> c.autoMiningEnabled,
                                       cooldownPeriod |-> c.cooldownPeriod,
                                       maxGasPrice |-> c.maxGasPrice]],
                 <<Event("ConfigUpdated", ConfigArgs(c))>>)

emergencyStop_ResetsCooldown(w, sender) ==
    IF ~onlyRole(OWNER_ROLE, sender) THEN Revert(w, Unauthorized)
    ELSE Success([w EXCEPT !.config.autoMiningEnabled = FALSE, !.lastMintTimestamp = 0],
                 <<Event("EmergencyStop", <<sender>>)>>)
emergencyStop_Toggle(w, sender) ==
    IF ~onlyRole(OWNER_ROLE, sender) THEN Revert(w, Unauthorized)
    ELSE Success([w EXCEPT !.config.autoMiningEnabled = ~w.config.autoMiningEnabled],
                 <<Event("EmergencyStop", <<sender>>)>>)
emergencyStop_Unrestricted(w, sender) ==
    Success([w EXCEPT !.config.autoMiningEnabled = FALSE], <<Event("EmergencyStop", <<sender>>)>>)
emergencyStop(w, sender) ==
    IF ~onlyRole(OWNER_ROLE, sender) THEN Revert(w, Unauthorized)
    ELSE Success([w EXCEPT !.config.autoMiningEnabled = FALSE],
                 <<Event("EmergencyStop", <<sender>>)>>)

(* What the recipient of to.call{value: withdrawAmount}("") does with the  *)
(* control it is handed: it accepts or rejects the payment, and before     *)
(* that it may call back into the Controller.                              *)
Reentries == {"none", "emergencyStop", "withdrawETH"}
RecipientBehaviours ==
    {[accepts |-> FALSE, reenter |-> "none"]} \cup [accepts : {TRUE}, reenter : Reentries]

Reenter(w, sender, reenter) ==
    CASE reenter = "emergencyStop" -> emergencyStop(w, sender)
      [] reenter = "withdrawETH" ->
            IF ~onlyRole(OWNER_ROLE, sender) THEN Revert(w, Unauthorized)
            ELSE Revert(w, Reentrant)
      [] OTHER -> Success(w, <<>>)

withdrawETH_NoSentinel(w, sender, to, amount, entered, behaviour) ==
    LET paid == [w EXCEPT !.balance = w.balance - amount]
        nested == Reenter(paid, to, behaviour.reenter)
    IN IF ~onlyRole(OWNER_ROLE, sender) THEN Revert(w, Unauthorized)
       ELSE IF entered THEN Revert(w, Reentrant)
       ELSE IF to = ZeroAddress THEN Revert(w, "Invalid recipient")
       ELSE IF ~(amount > 0) THEN Revert(w, "No ETH to withdraw")
       ELSE IF ~(w.balance >= amount) THEN Revert(w, "Insufficient balance")
       ELSE IF ~behaviour.accepts THEN Revert(w, "ETH transfer failed")
       ELSE Sent(Success(nested.w, nested.events \o <<Event("ETHWithdrawn", <<to, amount>>)>>),
                 to, amount)
withdrawETH_DebitKept(w, sender, to, amount, entered, behaviour) ==
    LET withdrawAmount == IF amount = 0 THEN w.balance ELSE amount
        paid == [w EXCEPT !.balance = w.balance - withdrawAmount]
    IN IF ~onlyRole(OWNER_ROLE, sender) THEN Revert(w, Unauthorized)
       ELSE IF to = ZeroAddress THEN Revert(w, "Invalid recipient")
       ELSE IF ~(withdrawAmount > 0) THEN Revert(w, "No ETH to withdraw")
       ELSE IF ~(w.balance >= withdrawAmount) THEN Revert(w, "Insufficient balance")
       ELSE IF ~behaviour.accepts
            THEN [ok |-> FALSE, err |-> "ETH transfer failed", w |-> paid, events |-> <<>>,
                  sent |-> <<>>]
       ELSE Sent(Success(paid, <<Event("ETHWithdrawn", <<to, withdrawAmount>>)>>),
                 to, withdrawAmount)
withdrawETH_AnyRole(w, sender, to, amount, entered, behaviour) ==
    LET withdrawAmount == IF amount = 0 THEN w.balance ELSE amount
        paid == [w EXCEPT !.balance = w.balance - withdrawAmount]
        nested == Reenter(paid, to, behaviour.reenter)
    IN IF ~onlyRole_AnyRole(OWNER_ROLE, sender) THEN Revert(w, Unauthorized)
       ELSE IF entered THEN Revert(w, Reentrant)
       ELSE IF to = ZeroAddress THEN Revert(w, "Invalid recipient")
       ELSE IF ~(withdrawAmount > 0) THEN Revert(w, "No ETH to withdraw")
       ELSE IF ~(w.balance >= withdrawAmount) THEN Revert(w, "Insufficient balance")
       ELSE IF ~behaviour.accepts THEN Revert(w, "ETH transfer failed")
       ELSE Sent(Success(nested.w,
                         nested.events \o <<Event("ETHWithdrawn", <<to, withdrawAmount>>)>>),
                 to, withdrawAmount)
withdrawETH(w, sender, to, amount, entered, behaviour) ==
    LET withdrawAmount == IF amount = 0 THEN w.balance ELSE amount
        paid == [w EXCEPT !.balance = w.balance - withdrawAmount]
        nested == Reenter(paid, to, behaviour.reenter)
    IN IF ~onlyRole(OWNER_ROLE, sender) THEN Revert(w, Unauthorized)
       ELSE IF entered THEN Revert(w, Reentrant)
       ELSE IF to = ZeroAddress THEN Revert(w, "Invalid recipient")
       ELSE IF ~(withdrawAmount > 0) THEN Revert(w, "No ETH to withdraw")
       ELSE IF ~(w.balance >= withdrawAmount) THEN Revert(w, "Insufficient balance")
       ELSE IF ~behaviour.accepts THEN Revert(w, "ETH transfer failed")
       ELSE Sent(Success(nested.w,
                         nested.events \o <<Event("ETHWithdrawn", <<to, withdrawAmount>>)>>),
                 to, withdrawAmount)

(* The ERC20 token is an external contract: balanceOf(address(this)) is    *)
(* whatever it reports, and transfer returns true, returns false or        *)
(* reverts.                                                                *)
TransferOutcomes == {"true", "false", "revert"}

withdrawTokens(w, sender, token, to, amount, entered, tokenBalance, transfer) ==
    LET withdrawAmount == IF amount = 0 THEN tokenBalance ELSE amount
    IN IF ~onlyRole(OWNER_ROLE, sender) THEN Revert(w, Unauthorized)
       ELSE IF entered THEN Revert(w, Reentrant)
       ELSE IF token = ZeroAddress THEN Revert(w, "Invalid token")
       ELSE IF to = ZeroAddress THEN Revert(w, "Invalid recipient")
       ELSE IF ~(withdrawAmount > 0) THEN Revert(w, "No tokens to withdraw")
       ELSE IF ~(tokenBalance >= withdrawAmount) THEN Revert(w, "Insufficient token balance")
       ELSE IF transfer = "revert" THEN Revert(w, "Token reverted")
       ELSE IF transfer = "false" THEN Revert(w, "Token transfer failed")
       ELSE Success(w, <<Event("TokensWithdrawn", <<token, to, withdrawAmount>>)>>)

getMiningStatus_CooldownIgnored(w) ==
    [isEnabled |-> w.config.autoMiningEnabled,
     currentPrice |-> quotePrice,
     canMintNow |-> quotePrice <= w.config.maxPricePerToken,
     nextMintTime |-> w.lastMintTimestamp + w.config.cooldownPeriod,
     ethBalance |-> w.balance,
     currentEpochId |-> currentEpochId]

getMiningStatus_EnabledInCanMint(w) ==
    [isEnabled |-> w.config.autoMiningEnabled,
     currentPrice |-> quotePrice,
     canMintNow |-> w.config.autoMiningEnabled /\ (quotePrice <= w.config.maxPricePerToken)
                        /\ CooldownElapsed(w),
     nextMintTime |-> w.lastMintTimestamp + w.config.cooldownPeriod,
     ethBalance |-> w.balance,
     currentEpochId |-> currentEpochId]
getMiningStatus(w) ==
    [isEnabled |-> w.config.autoMiningEnabled,
     currentPrice |-> quotePrice,
     canMintNow |-> (quotePrice <= w.config.maxPricePerToken) /\ CooldownElapsed(w),
     nextMintTime |-> w.lastMintTimestamp + w.config.cooldownPeriod,
     ethBalance |-> w.balance,
     currentEpochId |-> currentEpochId]

-----------------------------------------------------------------------------
(* Transactions.  The chain processes one transaction at a time: a         *)
(* transaction is taken up when the receipt of the one before it has been  *)
(* delivered.                                                              *)

Apply(op, sender, r) ==
    /\ last.op = "none"
    /\ config' = r.w.config
    /\ lastMintTimestamp' = r.w.lastMintTimestamp
    /\ balance' = r.w.balance
    /\ last' = Receipt(op, sender, r, Storage)
    /\ lastSuccess' = IF op = "executeMint" /\ r.ok
                      THEN [time |-> now, cooldown |-> config.cooldownPeriod,
                            sender |-> sender]
                      ELSE lastSuccess
    /\ UNCHANGED <<roles, currentPrice, epochId, now>>

Commit(op, sender, r) == Apply(op, sender, r) /\ UNCHANGED monitor

ExecuteMintTx ==
    \E sender \in Accounts, recipient \in MintRecipients, amount \in AmountInputs,
       gasprice \in GasPriceInputs, rigReverts \in BOOLEAN :
        Commit("executeMint", sender,
               executeMint(Storage, sender, recipient, amount, gasprice, rigReverts, FALSE))

UpdateConfigTx ==
    \E sender \in Accounts, c \in ConfigInputs :
        Commit("updateConfig", sender, updateConfig(Storage, sender, c))

EmergencyStopTx ==
    \E sender \in Accounts :
        Commit("emergencyStop", sender, emergencyStop(Storage, sender))

WithdrawETHTx ==
    \E sender \in Accounts, to \in Recipients, amount \in WithdrawInputs,
       behaviour \in RecipientBehaviours :
        Commit("withdrawETH", sender, withdrawETH(Storage, sender, to, amount, FALSE, behaviour))

WithdrawTokensTx ==
    \E sender \in Accounts, token \in Tokens, to \in TokenRecipients,
       amount \in TokenAmountInputs, tokenBalance \in 0 .. MaxTokenBalance,
       transfer \in TransferOutcomes :
        Commit("withdrawTokens", sender,
               withdrawTokens(Storage, sender, token, to, amount, FALSE, tokenBalance, transfer))

(* receive() external payable {} *)
(* eth_call of a view function: the storage is read, never written. *)
ViewCall(op, sender, ret) ==
    /\ last.op = "none"
    /\ last' = Answer(op, sender, ret, Storage)
    /\ UNCHANGED <<config, lastMintTimestamp, balance, roles, currentPrice, epochId, now,
                   lastSuccess, monitor>>

CheckProfitabilityCall ==
    \E sender \in Viewers : ViewCall("checkProfitability", sender, checkProfitability(Storage))

GetMiningStatusCall ==
    \E sender \in Viewers : ViewCall("getMiningStatus", sender, getMiningStatus(Storage))

Receive ==
    \E value \in 1 .. MaxBalance :
        /\ last.op = "none"
        /\ balance + value <= MaxBalance
        /\ balance' = balance + value
        /\ UNCHANGED <<config, lastMintTimestamp, roles, currentPrice, epochId, now, last,
                       lastSuccess, monitor>>

(* MockRig test helpers: the Rig's price and epoch move on their own. *)
setPrice ==
    \E newPrice \in PriceInputs :
        /\ last.op = "none"
        /\ currentPrice' = newPrice
        /\ UNCHANGED <<config, lastMintTimestamp, balance, roles, epochId, now, last,
                       lastSuccess, monitor>>

setEpoch ==
    \E newEpoch \in EpochInputs :
        /\ last.op = "none"
        /\ epochId' = newEpoch
        /\ UNCHANGED <<config, lastMintTimestamp, balance, roles, currentPrice, now, last,
                       lastSuccess, monitor>>

(* A later block: block.timestamp only moves forward. *)
NextBlock ==
    \E t \in BlockTimes :
        /\ last.op = "none"
        /\ t > now
        /\ now' = t
        /\ UNCHANGED <<config, lastMintTimestamp, balance, roles, currentPrice, epochId, last,
                       lastSuccess, monitor>>

(* The receipt is handed to the sender; the next transaction is processed  *)
(* after that.                                                             *)
DeliverReceipt ==
    /\ last.op # "none"
    /\ last' = NoCall
    /\ UNCHANGED <<config, lastMintTimestamp, balance, roles, currentPrice, epochId, now,
                   lastSuccess, monitor>>

-----------------------------------------------------------------------------
(* The Monitor (monitor script).  A process runs run(): initialize(), then *)
(* the poll loop, which calls checkAndMine() and awaits it, then sleeps.   *)
(* Each call of checkAndMine() is a tick with its own position and locals; *)
(* the transaction it submits is pending until the chain mines it.         *)

Monitors == {"m1", "m2"}
MaxChecks == 3
MaxRejections == 1

(* A tick: where checkAndMine() stands, its locals (status, the answer of   *)
(* checkProfitability), the transaction it submitted, and how it returned. *)
NoTick ==
    [pc |-> "idle", status |-> <<>>, profit |-> <<>>, amount |-> 0, tx |-> "none",
     receipt |-> <<>>, outcome |-> "none"]

(* lastMintTime is null (0) or the instant of a tick: the process clock is  *)
(* read once per tick and ticks are a poll interval apart, so the number   *)
(* of the tick stands for the instant.                                     *)
Stats0 ==
    [checksPerformed |-> 0, mintsExecuted |-> 0, totalTokensMinted |-> 0,
     totalETHSpent |-> 0, errors |-> 0, lastMintTime |-> 0]

(* rejections counts the promise rejections no handler took, which Node    *)
(* hands to the process's unhandledRejection listener.                     *)
NotStarted ==
    [proc |-> "off", exitCode |-> -1, isRunning |-> FALSE, loop |-> "off", awaited |-> 0,
     ticks |-> [id \in 1 .. MaxChecks |-> NoTick], stats |-> Stats0, rejections |-> 0]

Launched == [NotStarted EXCEPT !.proc = "running", !.loop = "initialize"]

(* Ticks that have been called and have not returned. *)
ActiveTicks(mon) == {id \in DOMAIN mon.ticks : mon.ticks[id].pc \notin {"idle", "done"}}

(* Ticks suspended in the submission of executeMint or in tx.wait(). *)
MintAwaited(mon) == {id \in DOMAIN mon.ticks : mon.ticks[id].pc \in {"executeMint", "wait"}}

(* Transactions of the Monitor the chain has not mined yet. *)
PendingMints(mon) == {id \in DOMAIN mon.ticks : mon.ticks[id].tx = "pending"}

Chain == <<config, lastMintTimestamp, balance, roles, currentPrice, epochId, now, last,
           lastSuccess>>

(* Each Monitor signs with its own key. *)
Wallet(m) == IF m = "m1" THEN "manager" ELSE "manager2"
RECIPIENT_ADDRESS == "user"

(* Leaving checkAndMine(): the locals are gone, the transaction it may     *)
(* have submitted is not.                                                  *)
Return(t, outcome) ==
    [NoTick EXCEPT !.pc = "done", !.outcome = outcome, !.tx = t.tx,
                   !.amount = IF t.tx = "pending" THEN t.amount ELSE 0]

Catch_Rethrows(mon, id) ==
    [mon EXCEPT !.stats.errors = @ + 1, !.ticks[id] = Return(mon.ticks[id], "failed"),
                !.proc = "exited", !.exitCode = 1]

(* catch (error) { stats.errors++; ... }, and the branch of a receipt      *)
(* whose status is not 1.                                                  *)
Catch(mon, id) ==
    [mon EXCEPT !.stats.errors = @ + 1, !.ticks[id] = Return(mon.ticks[id], "failed")]

Skip(mon, id) == [mon EXCEPT !.ticks[id] = Return(mon.ticks[id], "skipped")]

MonitorStep(m, mon) ==
    /\ last.op = "none"
    /\ monitor[m].proc = "running"
    /\ monitor' = [monitor EXCEPT ![m] = mon]
    /\ UNCHANGED Chain

(* run(): await initialize(); a rejection reaches run().catch, exit code 1. *)
initialize(m) ==
    /\ monitor[m].loop = "initialize"
    /\ \E ready \in BOOLEAN :
          MonitorStep(m, IF ready
                         THEN [monitor[m] EXCEPT !.isRunning = TRUE, !.loop = "test"]
                         ELSE [monitor[m] EXCEPT !.proc = "exited", !.exitCode = 1,
                                                 !.loop = "off"])

(* while (isRunning) { await checkAndMine(); ...: the call runs up to its  *)
(* first await, the getMiningStatus request.                               *)
run(m) ==
    LET id == monitor[m].stats.checksPerformed + 1
    IN /\ monitor[m].loop = "test"
       /\ monitor[m].isRunning
       /\ monitor[m].stats.checksPerformed < MaxChecks
       /\ MonitorStep(m, [monitor[m] EXCEPT !.stats.checksPerformed = id,
                                             !.ticks[id].pc = "getMiningStatus",
                                             !.loop = "awaitTick",
                                             !.awaited = id])

(* const status = await controller.getMiningStatus(); if (!status.isEnabled) return; *)
ReadStatus(m, id) ==
    LET status == getMiningStatus(Storage)
    IN /\ monitor[m].ticks[id].pc = "getMiningStatus"
       /\ \E fault \in BOOLEAN :
             MonitorStep(m, IF fault THEN Catch(monitor[m], id)
                            ELSE IF ~status.isEnabled THEN Skip(monitor[m], id)
                            ELSE [monitor[m] EXCEPT !.ticks[id].status = status,
                                                    !.ticks[id].pc = "checkProfitability"])

ReadProfitability_CooldownIgnored(m, id) ==
    LET p == checkProfitability(Storage)
    IN /\ monitor[m].ticks[id].pc = "checkProfitability"
       /\ \E fault \in BOOLEAN :
             MonitorStep(m, IF fault THEN Catch(monitor[m], id)
                            ELSE IF ~p.isProfitable \/ p.recommendedAmount = 0
                                 THEN Skip(monitor[m], id)
                            ELSE [monitor[m] EXCEPT !.ticks[id].profit = p,
                                                    !.ticks[id].amount = p.recommendedAmount,
                                                    !.ticks[id].pc = "executeMint"])

(* await controller.checkProfitability(); the two skips; then the call of  *)
(* controller.executeMint(RECIPIENT_ADDRESS, recommendedAmount, ...).       *)
ReadProfitability(m, id) ==
    LET p == checkProfitability(Storage)
        status == monitor[m].ticks[id].status
    IN /\ monitor[m].ticks[id].pc = "checkProfitability"
       /\ \E fault \in BOOLEAN :
             MonitorStep(m, IF fault THEN Catch(monitor[m], id)
                            ELSE IF ~status.canMintNow THEN Skip(monitor[m], id)
                            ELSE IF ~p.isProfitable \/ p.recommendedAmount = 0
                                 THEN Skip(monitor[m], id)
                            ELSE [monitor[m] EXCEPT !.ticks[id].profit = p,
                                                    !.ticks[id].amount = p.recommendedAmount,
                                                    !.ticks[id].pc = "executeMint"])

(* const tx = await controller.executeMint(...): the node takes the        *)
(* transaction or the request fails.                                       *)
SubmitMint(m, id) ==
    /\ monitor[m].ticks[id].pc = "executeMint"
    /\ \E fault \in BOOLEAN :
          MonitorStep(m, IF fault THEN Catch(monitor[m], id)
                         ELSE [monitor[m] EXCEPT !.ticks[id].tx = "pending",
                                                 !.ticks[id].pc = "wait"])

(* The chain mines a pending transaction of the Monitor: executeMint runs  *)
(* with the Manager's wallet as sender, at the gas price of the day.       *)
MineMint(m, id) ==
    /\ monitor[m].ticks[id].tx = "pending"
    /\ \E gasprice \in GasPriceInputs, rigReverts \in BOOLEAN :
          LET r == executeMint(Storage, Wallet(m), RECIPIENT_ADDRESS,
                               monitor[m].ticks[id].amount, gasprice, rigReverts, FALSE)
              mined == [monitor[m].ticks[id] EXCEPT !.tx = "mined",
                                                    !.receipt = [ok |-> r.ok,
                                                                 events |-> r.events]]
          IN /\ Apply("executeMint", Wallet(m), r)
             /\ monitor' = [monitor EXCEPT ![m].ticks[id] =
                                IF @.pc = "wait" THEN mined
                                ELSE IF monitor[m].awaited = id
                                     THEN [@ EXCEPT !.tx = "none", !.amount = 0]
                                ELSE NoTick]

(* .find(e => e && e.name === "TokensMinted") *)
FindMinted(events) ==
    LET found == {i \in 1 .. Len(events) : events[i].name = "TokensMinted"}
    IN IF found = {} THEN <<>> ELSE <<events[CHOOSE i \in found : \A j \in found : i <= j]>>

(* The statistics are JavaScript numbers: floats of FLOAT_BITS significant  *)
(* bits, here counted in units of 1 / WAD ether.  Ulp(x) is the spacing of *)
(* the floats around x; a value between two floats goes to the nearest,    *)
(* a tie to the one with the even significand.                             *)
FLOAT_BITS == 7

RECURSIVE Ulp(_, _)
Ulp(x, u) == IF x < u * 2 ^ FLOAT_BITS THEN u ELSE Ulp(x, 2 * u)

RoundToFloat_Exact(x) == x
RoundToFloat(x) ==
    LET u == Ulp(x, 1)
        q == x \div u
        r == x % u
    IN IF 2 * r < u THEN q * u
       ELSE IF 2 * r > u THEN (q + 1) * u
       ELSE IF q % 2 = 0 THEN q * u
       ELSE (q + 1) * u

(* ethers.formatEther(wei): the decimal numeral of wei / 1e18, exact. *)
formatEther(wei) == [whole |-> wei \div WAD, fraction |-> wei % WAD]

(* parseFloat(numeral): the float nearest to the numeral's value. *)
parseFloat(numeral) == RoundToFloat(numeral.whole * WAD + numeral.fraction)

(* a += b on floats. *)
FloatAdd(a, b) == RoundToFloat(a + b)

Confirmed_CostNotAdded(mon, id) ==
    LET event == FindMinted(mon.ticks[id].receipt.events)
    IN IF event = <<>>
       THEN [mon EXCEPT !.ticks[id] = Return(mon.ticks[id], "confirmed")]
       ELSE [mon EXCEPT !.stats.mintsExecuted = @ + 1,
                        !.stats.totalTokensMinted =
                            FloatAdd(@, parseFloat(formatEther(event[1].args[2]))),
                        !.stats.lastMintTime = id,
                        !.ticks[id] = Return(mon.ticks[id], "minted")]

(* if (receipt.status === 1) { ... if (event) { the statistics } } *)
Confirmed(mon, id) ==
    LET event == FindMinted(mon.ticks[id].receipt.events)
    IN IF event = <<>>
       THEN [mon EXCEPT !.ticks[id] = Return(mon.ticks[id], "confirmed")]
       ELSE LET amount == formatEther(event[1].args[2])
                cost == formatEther(event[1].args[3])
            IN [mon EXCEPT !.stats.mintsExecuted = @ + 1,
                           !.stats.totalTokensMinted = FloatAdd(@, parseFloat(amount)),
                           !.stats.totalETHSpent = FloatAdd(@, parseFloat(cost)),
                           !.stats.lastMintTime = id,
                           !.ticks[id] = Return(mon.ticks[id], "minted")]

(* const receipt = await tx.wait(): the wait fails, or the transaction is  *)
(* mined; a reverted one counts one error (thrown, or status 0).           *)
AwaitConfirmation(m, id) ==
    /\ monitor[m].ticks[id].pc = "wait"
    /\ \E fault \in BOOLEAN :
          /\ ~fault => monitor[m].ticks[id].tx = "mined"
          /\ MonitorStep(m, IF fault THEN Catch(monitor[m], id)
                            ELSE IF monitor[m].ticks[id].receipt.ok
                                 THEN Confirmed(monitor[m], id)
                            ELSE Catch(monitor[m], id))

(* await checkAndMine() resumes when the call it awaits has returned. *)
TickSettled_NotAwaited(mon) == TRUE
TickSettled(mon) == mon.ticks[mon.awaited].pc = "done"

Resumed(mon) ==
    [mon EXCEPT !.loop = "sleep",
                !.awaited = 0,
                !.ticks[mon.awaited] =
                    IF @.pc # "done" THEN @
                    ELSE IF @.tx = "pending"
                         THEN [NoTick EXCEPT !.tx = "pending",
                                             !.amount = mon.ticks[mon.awaited].amount]
                    ELSE NoTick]

TickReturns(m) ==
    /\ monitor[m].loop = "awaitTick"
    /\ TickSettled(monitor[m])
    /\ MonitorStep(m, Resumed(monitor[m]))

(* await new Promise(resolve => setTimeout(resolve, POLL_INTERVAL)) *)
sleep(m) ==
    /\ monitor[m].loop = "sleep"
    /\ MonitorStep(m, [monitor[m] EXCEPT !.loop = "test"])

(* SIGINT / SIGTERM: isRunning = false; displayStats(); process.exit(0). *)
shutdown(m) ==
    MonitorStep(m, [monitor[m] EXCEPT !.isRunning = FALSE, !.proc = "exited",
                                      !.exitCode = 0])

(* process.on("unhandledRejection", (error) => { console.error(...);       *)
(* stats.errors++; }): a promise outside the awaits of run() is rejected.  *)
unhandledRejection(m) ==
    /\ monitor[m].rejections < MaxRejections
    /\ MonitorStep(m, [monitor[m] EXCEPT !.rejections = @ + 1, !.stats.errors = @ + 1])

Init ==
    /\ \E maxPricePerToken \in MaxPriceInputs :
          config = constructor(maxPricePerToken, MIN_PROFIT_MARGIN)
    /\ lastMintTimestamp = 0
    /\ balance = 0
    /\ roles = [OWNER_ROLE |-> {"owner"}, MANAGER_ROLE |-> {"manager"}]
    /\ currentPrice = 1
    /\ epochId = 1
    /\ now = DeployTime
    /\ last = NoCall
    /\ lastSuccess = [time |-> 0, cooldown |-> 0, sender |-> ""]
    /\ monitor = [m \in Monitors |-> NotStarted]

Next ==
    \/ ExecuteMintTx
    \/ UpdateConfigTx
    \/ EmergencyStopTx
    \/ WithdrawETHTx
    \/ WithdrawTokensTx
    \/ CheckProfitabilityCall
    \/ GetMiningStatusCall
    \/ Receive
    \/ setPrice
    \/ setEpoch
    \/ NextBlock
    \/ DeliverReceipt

Spec == Init /\ [][Next]_vars

(* The Monitor is launched against a Controller the Owner has deployed and *)
(* configured for the Rig's prices.                                        *)
MonitorMintAmounts == {2 * WAD, 2 * WAD + 1}

MonitorInit ==
    /\ \E maxPricePerToken \in MaxPriceInputs, maxMintAmount \in MonitorMintAmounts :
          config = [ReferenceConfig EXCEPT !.maxPricePerToken = maxPricePerToken,
                                           !.maxMintAmount = maxMintAmount]
    /\ lastMintTimestamp = 0
    /\ balance = 0
    /\ roles = [OWNER_ROLE |-> {"owner"}, MANAGER_ROLE |-> {"manager"}]
    /\ currentPrice = 1
    /\ epochId = 1
    /\ now = DeployTime
    /\ last = NoCall
    /\ lastSuccess = [time |-> 0, cooldown |-> 0, sender |-> ""]
    /\ monitor = [m \in Monitors |-> IF m = "m1" THEN Launched ELSE NotStarted]

MonitorNext ==
    \/ \E m \in Monitors : initialize(m)
    \/ \E m \in Monitors : run(m)
    \/ \E m \in Monitors, id \in 1 .. MaxChecks : ReadStatus(m, id)
    \/ \E m \in Monitors, id \in 1 .. MaxChecks : ReadProfitability(m, id)
    \/ \E m \in Monitors, id \in 1 .. MaxChecks : SubmitMint(m, id)
    \/ \E m \in Monitors, id \in 1 .. MaxChecks : MineMint(m, id)
    \/ \E m \in Monitors, id \in 1 .. MaxChecks : AwaitConfirmation(m, id)
    \/ \E m \in Monitors : TickReturns(m)
    \/ \E m \in Monitors : sleep(m)
    \/ \E m \in Monitors : shutdown(m)
    \/ EmergencyStopTx
    \/ Receive
    \/ setPrice
    \/ NextBlock
    \/ DeliverReceipt

MonitorSpec == MonitorInit /\ [][MonitorNext]_vars

-----------------------------------------------------------------------------
(* Properties.  `last` is the receipt of the transaction just processed    *)
(* and last.before the storage it started from; a state with               *)
(* last.op = "none" is one in which the next transaction is taken up.      *)

Idle == last.op = "none"

Managers == roles[MANAGER_ROLE]
Owners == roles[OWNER_ROLE]

OwnerOps == {"updateConfig", "emergencyStop", "withdrawETH", "withdrawTokens"}
GuardedOps == {"executeMint", "updateConfig", "withdrawETH", "withdrawTokens"}

Unchanged == Storage = last.before

MintSucceeded == last.op = "executeMint" /\ last.ok

(* The six preconditions of executeMint, in the units of the code: enabled, *)
(* amount bounds, cooldown, gas price, balance, per-unit price.            *)
Pre1 == config.autoMiningEnabled
Pre2(amount) == config.minMintAmount <= amount /\ amount <= config.maxMintAmount
Pre3 == now >= lastMintTimestamp + config.cooldownPeriod
Pre4(gasprice) ==
    /\ config.maxGasPrice <= MAX_UINT \div GWEI
    /\ gasprice <= config.maxGasPrice * GWEI
Pre5(amount) == quote(amount) <= balance
Pre6(amount) ==
    /\ amount > 0
    /\ (quote(amount) * WAD) \div amount <= config.maxPricePerToken

\* C1: in every reachable state, an executeMint call by an account that does
\* not hold the Manager role fails with the authorization error, emits
\* nothing and leaves config, lastMintTimestamp and balance as they were.
C1_NonManagerMintRejected ==
    (last.op = "executeMint" /\ last.sender \notin Managers) =>
        /\ ~last.ok
        /\ last.err = Unauthorized
        /\ last.events = <<>>
        /\ Unchanged

\* A user without any role has called executeMint in a state in which a
\* Manager's call could pass every guard.
C1_Witness ==
    /\ last.op = "executeMint"
    /\ last.sender = "user"
    /\ last.err = Unauthorized
    /\ Pre1 /\ Pre3 /\ Pre2(WAD) /\ Pre4(GWEI) /\ Pre5(WAD) /\ Pre6(WAD)
    /\ balance > 0

\* C2: updateConfig, emergencyStop, withdrawETH and withdrawTokens called by
\* an account that does not hold the Owner role (a Manager included) fail
\* and leave config, lastMintTimestamp and balance unchanged.
C2_NonOwnerRejected ==
    (last.op \in OwnerOps /\ last.sender \notin Owners) =>
        /\ ~last.ok
        /\ last.err = Unauthorized
        /\ last.events = <<>>
        /\ Unchanged

\* The Manager has tried to withdraw ETH from a funded Controller.
C2_Witness ==
    /\ last.op = "withdrawETH"
    /\ last.sender \in Managers
    /\ last.err = Unauthorized
    /\ balance > 0

\* C3 as stated: a mint that succeeds at time t under cooldownPeriod c closes
\* the window [t, t + c): no executeMint succeeds before t + c, whatever
\* happens in between.
C3_OneMintPerWindowAtMintTime ==
    [][(last'.op = "executeMint" /\ last'.ok) =>
            now >= lastSuccess.time + lastSuccess.cooldown]_vars

\* C3 amended: a mint succeeds only at or after lastMintTimestamp plus the
\* cooldownPeriod in force when it is attempted; that is the window of the
\* mint before it whenever cooldownPeriod has not been lowered since.
C3_OneMintPerWindowInForce ==
    [][(last'.op = "executeMint" /\ last'.ok) =>
            /\ now >= lastSuccess.time + config.cooldownPeriod
            /\ (config.cooldownPeriod >= lastSuccess.cooldown =>
                    now >= lastSuccess.time + lastSuccess.cooldown)]_vars

\* A second mint has succeeded, after the cooldown that followed the first.
C3_Witness ==
    /\ MintSucceeded
    /\ last.before.lastMintTimestamp > 0
    /\ config.cooldownPeriod > 0
    /\ now >= last.before.lastMintTimestamp + config.cooldownPeriod

\* C4: after a successful mint, a Manager's executeMint with mining enabled
\* and the amount within bounds fails with the cooldown error at any time
\* before lastMintTimestamp + cooldownPeriod; at or after that time the call
\* succeeds when its other preconditions pass and the Rig accepts the mint.
C4_CooldownGate ==
    (Idle /\ lastMintTimestamp > 0) =>
        \A sender \in Managers, recipient \in MintRecipients, amount \in AmountInputs,
           gasprice \in GasPriceInputs :
            LET r == executeMint(Storage, sender, recipient, amount, gasprice, FALSE, FALSE)
            IN /\ (Pre1 /\ Pre2(amount) /\ ~Pre3) => (~r.ok /\ r.err = "Cooldown active")
               /\ (Pre1 /\ Pre2(amount) /\ Pre3 /\ Pre4(gasprice) /\ Pre5(amount)
                        /\ Pre6(amount)) => r.ok

\* A Manager's mint has been refused for the cooldown alone: mining is
\* enabled, the price is within the ceiling and the balance covers a mint.
C4_Witness ==
    /\ last.op = "executeMint"
    /\ last.err = "Cooldown active"
    /\ lastMintTimestamp > 0
    /\ Pre1 /\ Pre5(WAD) /\ Pre6(WAD)
    /\ balance > 0

\* C5: when the Rig's mint reverts, executeMint fails as a whole:
\* lastMintTimestamp, balance and config are unchanged and no event is
\* emitted.
C5_RigFailureAtomic ==
    /\ (last.op = "executeMint" /\ last.err = RigReverted) =>
            (~last.ok /\ last.events = <<>> /\ Unchanged)
    /\ Idle =>
        \A sender \in Accounts, recipient \in MintRecipients, amount \in AmountInputs,
           gasprice \in GasPriceInputs :
            LET r == executeMint(Storage, sender, recipient, amount, gasprice, TRUE, FALSE)
            IN ~r.ok /\ r.events = <<>> /\ r.w = Storage

\* The Rig has reverted a mint that had passed every guard of the Controller.
C5_Witness ==
    /\ last.op = "executeMint"
    /\ last.err = RigReverted
    /\ Pre1 /\ Pre3
    /\ balance > 0

C7_MintEffects ==
    /\ MintSucceeded =>
        /\ Len(last.events) = 1
        /\ last.events[1].name = "TokensMinted"
        /\ last.events[1].args[1] \in MintRecipients
        /\ last.events[1].args[3] = (currentPrice * last.events[1].args[2]) \div WAD
        /\ last.events[1].args[4] = epochId
        /\ balance = last.before.balance - last.events[1].args[3]
        /\ lastMintTimestamp = now
        /\ config = last.before.config
    /\ Idle =>
        \A sender \in Managers, recipient \in MintRecipients, amount \in AmountInputs,
           gasprice \in GasPriceInputs :
            (Pre1 /\ Pre2(amount) /\ Pre3 /\ Pre4(gasprice) /\ Pre5(amount) /\ Pre6(amount)) =>
                LET r == executeMint(Storage, sender, recipient, amount, gasprice, FALSE, FALSE)
                    cost == (currentPrice * amount) \div WAD
                IN /\ r.ok
                   /\ r.w = [config |-> config, lastMintTimestamp |-> now,
                             balance |-> balance - cost]
                   /\ r.events = <<[name |-> "TokensMinted",
                                    args |-> <<recipient, amount, cost, epochId>>]>>

\* A mint has succeeded at a quoted cost above zero that left ETH behind.
C7_Witness ==
    /\ MintSucceeded
    /\ last.events[1].args[3] > 0
    /\ balance > 0
    /\ balance < last.before.balance
    /\ epochId = 2

\* C8: an updateConfig by an Owner with maxMintAmount >= minMintAmount,
\* cooldownPeriod <= one day and maxGasPrice > 0 succeeds, replaces all
\* seven configuration values with the supplied ones, leaves
\* lastMintTimestamp and balance alone, and emits one ConfigUpdated event
\* carrying the seven new values.
C8_ValidConfigStored ==
    /\ (last.op = "updateConfig" /\ last.ok) =>
        /\ Len(last.events) = 1
        /\ last.events[1].name = "ConfigUpdated"
        /\ last.events[1].args =
              <<config.maxPricePerToken, config.minProfitMargin, config.maxMintAmount,
                config.minMintAmount, config.autoMiningEnabled, config.cooldownPeriod,
                config.maxGasPrice>>
        /\ lastMintTimestamp = last.before.lastMintTimestamp
        /\ balance = last.before.balance
    /\ Idle =>
        \A sender \in Owners, c \in ConfigInputs :
            (c.maxMintAmount >= c.minMintAmount /\ c.cooldownPeriod <= ONE_DAY
                    /\ c.maxGasPrice > 0) =>
                LET r == updateConfig(Storage, sender, c)
                IN /\ r.ok
                   /\ r.w = [config |-> c, lastMintTimestamp |-> lastMintTimestamp,
                             balance |-> balance]
                   /\ r.events =
                        <<[name |-> "ConfigUpdated",
                           args |-> <<c.maxPricePerToken, c.minProfitMargin, c.maxMintAmount,
                                      c.minMintAmount, c.autoMiningEnabled, c.cooldownPeriod,
                                      c.maxGasPrice>>]>>

\* The Owner has replaced the configuration with one of another profit
\* margin, after a mint.
C8_Witness ==
    /\ last.op = "updateConfig"
    /\ last.ok
    /\ config.minProfitMargin # last.before.config.minProfitMargin
    /\ lastMintTimestamp > 0

\* C9: an updateConfig by an Owner with maxMintAmount < minMintAmount, or
\* cooldownPeriod above one day, or maxGasPrice = 0 is rejected with the
\* matching reason, emits nothing and leaves the configuration identical.
C9_InvalidConfigRejected ==
    /\ (last.op = "updateConfig" /\ last.sender \in Owners /\ ~last.ok) =>
        /\ last.err \in {"Invalid mint amounts", "Cooldown too long", "Invalid gas price"}
        /\ config = last.before.config
        /\ last.events = <<>>
    /\ Idle =>
        \A sender \in Owners, c \in ConfigInputs :
            LET r == updateConfig(Storage, sender, c)
                rejected == ~r.ok /\ r.w = Storage /\ r.events = <<>>
            IN /\ c.maxMintAmount < c.minMintAmount =>
                    (rejected /\ r.err = "Invalid mint amounts")
               /\ (c.maxMintAmount >= c.minMintAmount /\ c.cooldownPeriod > ONE_DAY) =>
                    (rejected /\ r.err = "Cooldown too long")
               /\ (c.maxMintAmount >= c.minMintAmount /\ c.cooldownPeriod <= ONE_DAY
                        /\ c.maxGasPrice = 0) =>
                    (rejected /\ r.err = "Invalid gas price")

\* The Owner's update with maxGasPrice = 0 has been rejected.
C9_Witness ==
    /\ last.op = "updateConfig"
    /\ last.sender \in Owners
    /\ last.err = "Invalid gas price"

\* C10: in every reachable state the stored configuration has
\* maxMintAmount >= minMintAmount, cooldownPeriod <= one day and
\* maxGasPrice > 0.
C10_ConfigInvariants ==
    /\ config.maxMintAmount >= config.minMintAmount
    /\ config.cooldownPeriod <= ONE_DAY
    /\ config.maxGasPrice > 0

\* The Owner has stored a configuration on the boundary of the cooldown
\* limit.
C10_Witness ==
    /\ last.op = "updateConfig"
    /\ last.ok
    /\ config.cooldownPeriod = ONE_DAY
    /\ last.before.config.cooldownPeriod # ONE_DAY

\* C11: checkProfitability returns the Rig's spot price, with
\* isProfitable = false and recommendedAmount = 0 when that price exceeds
\* maxPricePerToken, and isProfitable = true and recommendedAmount =
\* maxMintAmount otherwise, in every reachable state; the call changes no
\* state.
C11_ProfitabilityView ==
    /\ LET r == checkProfitability(Storage)
       IN /\ r.currentPrice = currentPrice
          /\ currentPrice > config.maxPricePerToken =>
                (~r.isProfitable /\ r.recommendedAmount = 0)
          /\ currentPrice <= config.maxPricePerToken =>
                (r.isProfitable /\ r.recommendedAmount = config.maxMintAmount)
    /\ last.op = "checkProfitability" =>
        /\ last.ok
        /\ last.events = <<>>
        /\ Unchanged
        /\ last.ret.isProfitable = (currentPrice <= config.maxPricePerToken)

\* The view has answered "not profitable" at a spot price above the
\* ceiling, on a funded Controller.
C11_Witness ==
    /\ last.op = "checkProfitability"
    /\ ~last.ret.isProfitable
    /\ last.ret.recommendedAmount = 0
    /\ last.ret.currentPrice > config.maxPricePerToken
    /\ balance > 0

(* The stop a recipient made from inside the transfer shows in the         *)
(* receipt as an EmergencyStop event ahead of the withdrawal event.        *)
StoppedInside(events) == \E i \in 1 .. Len(events) : events[i].name = "EmergencyStop"

C13_EmergencyStopIdempotent ==
    /\ (last.op = "emergencyStop" /\ last.sender \in Owners) =>
        /\ last.ok
        /\ ~config.autoMiningEnabled
        /\ Storage = [last.before EXCEPT !.config.autoMiningEnabled = FALSE]
        /\ last.events = <<[name |-> "EmergencyStop", args |-> <<last.sender>>]>>
    /\ Idle =>
        \A sender \in Owners :
            LET first == emergencyStop(Storage, sender)
                second == emergencyStop(first.w, sender)
            IN /\ first.ok /\ second.ok
               /\ first.w = [config |-> [config EXCEPT !.autoMiningEnabled = FALSE],
                             lastMintTimestamp |-> lastMintTimestamp,
                             balance |-> balance]
               /\ second.w = first.w
               /\ first.events = <<[name |-> "EmergencyStop", args |-> <<sender>>]>>
               /\ second.events = first.events

\* The Owner has stopped a Controller that was already stopped, with a mint
\* behind it and ETH in it.
C13_Witness ==
    /\ last.op = "emergencyStop"
    /\ last.ok
    /\ ~last.before.config.autoMiningEnabled
    /\ lastMintTimestamp > 0
    /\ balance > 0

\* C14 as stated: while an executeMint is inside its call to the Rig or a
\* withdrawETH inside its transfer to the recipient, no nested call of a
\* mutating operation succeeds: the receipt of the outer call carries its
\* own event and no event of another operation, and the storage shows the
\* outer call's effect only.
C14_NoNestedMutation ==
    (last.op \in {"executeMint", "withdrawETH"} /\ last.ok) =>
        /\ Len(last.events) = 1
        /\ config = last.before.config

\* C15 as stated: under the constructor's default maxGasPrice, which is
\* 10 gwei, no executeMint with a gas price above 10 gwei succeeds, and one
\* whose other preconditions all pass fails with the gas-price error.
C15_GasPriceCeiling ==
    (Idle /\ config.maxGasPrice = DefaultMaxGasPrice) =>
        \A sender \in Managers, recipient \in MintRecipients, amount \in AmountInputs,
           gasprice \in GasPriceInputs :
            LET r == executeMint(Storage, sender, recipient, amount, gasprice, FALSE, FALSE)
            IN (gasprice > 10 * GWEI) =>
                /\ ~r.ok
                /\ (Pre1 /\ Pre2(amount) /\ Pre3 /\ Pre5(amount) /\ Pre6(amount)) =>
                        r.err = "Gas price too high"

\* C16 as stated: every successful executeMint pays at most maxPricePerToken
\* per unit: the cost sent to the Rig and the amount minted satisfy
\* cost * 1e18 <= maxPricePerToken * amount.
C16_PerUnitPriceCap ==
    MintSucceeded =>
        last.events[1].args[3] * WAD <= config.maxPricePerToken * last.events[1].args[2]

(* The six preconditions as conditions on the values, free of the width of *)
(* the arithmetic that evaluates them, and the failure of the earliest     *)
(* one violated ("" when none is).                                         *)
GasPriceWithinCeiling(gasprice) == (gasprice + GWEI - 1) \div GWEI <= config.maxGasPrice

PerUnitPriceWithinCeiling(amount) ==
    amount > 0 => (quote(amount) * WAD) \div amount <= config.maxPricePerToken

EarliestFailure(amount, gasprice) ==
    IF ~config.autoMiningEnabled THEN "Auto mining disabled"
    ELSE IF ~Pre2(amount) THEN "Amount out of bounds"
    ELSE IF ~Pre3 THEN "Cooldown active"
    ELSE IF ~GasPriceWithinCeiling(gasprice) THEN "Gas price too high"
    ELSE IF ~Pre5(amount) THEN "Insufficient ETH balance"
    ELSE IF ~PerUnitPriceWithinCeiling(amount) THEN "Price too high"
    ELSE ""

\* C17 as stated: for a Manager's executeMint, when one or more of the six
\* preconditions (enabled, amount bounds, cooldown, gas price, balance,
\* per-unit price) are violated, the call fails with the failure of the
\* earliest violated one in that order.
C17_EarliestFailureReported ==
    Idle =>
        \A sender \in Managers, recipient \in MintRecipients, amount \in AmountInputs,
           gasprice \in GasPriceInputs :
            LET r == executeMint(Storage, sender, recipient, amount, gasprice, FALSE, FALSE)
            IN EarliestFailure(amount, gasprice) # "" =>
                    (~r.ok /\ r.err = EarliestFailure(amount, gasprice))

(* The same order, for configurations whose maxGasPrice * 1 gwei fits the  *)
(* uint256 the guard computes it in.                                       *)
EarliestFailureReportedWithinWidth ==
    (Idle /\ config.maxGasPrice <= MAX_UINT \div GWEI) =>
        \A sender \in Managers, recipient \in MintRecipients, amount \in AmountInputs,
           gasprice \in GasPriceInputs :
            LET r == executeMint(Storage, sender, recipient, amount, gasprice, FALSE, FALSE)
            IN EarliestFailure(amount, gasprice) # "" =>
                    (~r.ok /\ r.err = EarliestFailure(amount, gasprice))

\* C18: lastMintTimestamp is zero after construction, never decreases, and
\* changes only in a step that is a successful executeMint, which sets it
\* to the current block time; every other operation, every view and every
\* failed call leaves it as it was.
C18_TimestampSetByMintOnly ==
    /\ lastMintTimestamp = 0
    /\ [][/\ lastMintTimestamp' >= lastMintTimestamp
          /\ lastMintTimestamp' # lastMintTimestamp =>
                (last'.op = "executeMint" /\ last'.ok /\ lastMintTimestamp' = now)]_vars

\* A second mint, in a later block, has moved lastMintTimestamp forward.
C18_Witness ==
    /\ MintSucceeded
    /\ last.before.lastMintTimestamp > 0
    /\ lastMintTimestamp > last.before.lastMintTimestamp

\* C19: in every reachable state getMiningStatus returns canMintNow =
\* (currentPrice <= maxPricePerToken) AND (now >= lastMintTimestamp +
\* cooldownPeriod), nextMintTime = lastMintTimestamp + cooldownPeriod,
\* isEnabled = autoMiningEnabled and ethBalance = the Controller's balance,
\* with the Rig's spot price and epoch; the call changes no state.
C19_MiningStatusView ==
    /\ LET s == getMiningStatus(Storage)
       IN /\ s.canMintNow = ((currentPrice <= config.maxPricePerToken)
                                /\ (now >= lastMintTimestamp + config.cooldownPeriod))
          /\ s.nextMintTime = lastMintTimestamp + config.cooldownPeriod
          /\ s.isEnabled = config.autoMiningEnabled
          /\ s.ethBalance = balance
          /\ s.currentPrice = currentPrice
          /\ s.currentEpochId = epochId
    /\ last.op = "getMiningStatus" =>
        /\ last.ok
        /\ last.events = <<>>
        /\ Unchanged
        /\ last.ret.ethBalance = balance
        /\ last.ret.isEnabled = config.autoMiningEnabled

\* The view has answered canMintNow = true on a Controller that is stopped,
\* after a mint whose cooldown has elapsed.
C19_Witness ==
    /\ last.op = "getMiningStatus"
    /\ last.ret.canMintNow
    /\ ~last.ret.isEnabled
    /\ lastMintTimestamp > 0
    /\ last.ret.nextMintTime <= now

\* C20: in every execution of the poll loop a Monitor has at most one tick
\* that has been called and has not returned, and awaits at most one
\* executeMint (its submission or its confirmation); a tick starts only
\* when the one before it has returned.
C20_TicksDoNotOverlap ==
    /\ [](\A m \in Monitors :
            /\ Cardinality(ActiveTicks(monitor[m])) <= 1
            /\ Cardinality(MintAwaited(monitor[m])) <= 1)
    /\ [][\A m \in Monitors :
            monitor'[m].stats.checksPerformed # monitor[m].stats.checksPerformed =>
                /\ ActiveTicks(monitor[m]) = {}
                /\ ActiveTicks(monitor'[m]) = {monitor'[m].stats.checksPerformed}]_vars

\* A later tick of a Monitor awaits the confirmation of its executeMint,
\* after an earlier tick of the same Monitor has had a mint confirmed.
C20_Witness ==
    \E m \in Monitors :
        /\ monitor[m].proc = "running"
        /\ monitor[m].stats.mintsExecuted >= 1
        /\ \E id \in DOMAIN monitor[m].ticks :
              /\ id >= 2
              /\ monitor[m].ticks[id].pc = "wait"
              /\ monitor[m].ticks[id].tx = "pending"

(* Two Monitors, each with a key the Owner granted the Manager role, run   *)
(* against one Controller that is funded for two mints of one token.       *)
RaceInit ==
    /\ config = [ReferenceConfig EXCEPT !.maxMintAmount = WAD]
    /\ lastMintTimestamp = 0
    /\ balance = MaxBalance
    /\ roles = [OWNER_ROLE |-> {"owner"}, MANAGER_ROLE |-> {Wallet(m) : m \in Monitors}]
    /\ currentPrice = 1
    /\ epochId = 1
    /\ now = DeployTime
    /\ last = NoCall
    /\ lastSuccess = [time |-> 0, cooldown |-> 0, sender |-> ""]
    /\ monitor = [m \in Monitors |-> Launched]

RaceNext ==
    \/ \E m \in Monitors : initialize(m)
    \/ \E m \in Monitors : run(m)
    \/ \E m \in Monitors, id \in 1 .. MaxChecks : ReadStatus(m, id)
    \/ \E m \in Monitors, id \in 1 .. MaxChecks : ReadProfitability(m, id)
    \/ \E m \in Monitors, id \in 1 .. MaxChecks : SubmitMint(m, id)
    \/ \E m \in Monitors, id \in 1 .. MaxChecks : MineMint(m, id)
    \/ \E m \in Monitors, id \in 1 .. MaxChecks : AwaitConfirmation(m, id)
    \/ \E m \in Monitors : TickReturns(m)
    \/ \E m \in Monitors : sleep(m)
    \/ NextBlock
    \/ DeliverReceipt

RaceSpec == RaceInit /\ [][RaceNext]_vars

(* The event loop of the Monitor's process resumes a settled await, fires  *)
(* a due timer and runs the loop test whatever the chain is doing; the     *)
(* chain hands out the receipt of every transaction it processed.          *)
MonitorFairness ==
    /\ \A m \in Monitors : SF_vars(TickReturns(m)) /\ SF_vars(sleep(m)) /\ SF_vars(run(m))
    /\ WF_vars(DeliverReceipt)

(* The Monitor's process against a Controller whose Owner and whose Rig's  *)
(* price stay put: the poll loop, the signals and rejections the process   *)
(* receives, the chain mining its transactions, deposits and the passing   *)
(* of time.                                                                *)
LoopInit == MonitorInit /\ config = ReferenceConfig

LoopNext ==
    \/ \E m \in Monitors : initialize(m)
    \/ \E m \in Monitors : run(m)
    \/ \E m \in Monitors, id \in 1 .. MaxChecks : ReadStatus(m, id)
    \/ \E m \in Monitors, id \in 1 .. MaxChecks : ReadProfitability(m, id)
    \/ \E m \in Monitors, id \in 1 .. MaxChecks : SubmitMint(m, id)
    \/ \E m \in Monitors, id \in 1 .. MaxChecks : MineMint(m, id)
    \/ \E m \in Monitors, id \in 1 .. MaxChecks : AwaitConfirmation(m, id)
    \/ \E m \in Monitors : TickReturns(m)
    \/ \E m \in Monitors : sleep(m)
    \/ \E m \in Monitors : shutdown(m)
    \/ \E m \in Monitors : unhandledRejection(m)
    \/ Receive
    \/ NextBlock
    \/ DeliverReceipt

LoopSpec == LoopInit /\ [][LoopNext]_vars /\ MonitorFairness

FailedTicks(mon) == {id \in DOMAIN mon.ticks : mon.ticks[id].outcome = "failed"}

\* C21: a tick of the Monitor calls executeMint only after getMiningStatus
\* has answered, in that tick, isEnabled and canMintNow, and
\* checkProfitability has answered, in that tick, isProfitable with a
\* recommendedAmount other than zero; the amount of the call is that
\* recommendedAmount; and a tick submits at most one executeMint.
C21_MintOnlyWhenAdvised ==
    /\ [](\A m \in Monitors, id \in 1 .. MaxChecks :
            LET tick == monitor[m].ticks[id]
            IN tick.pc \in {"executeMint", "wait"} =>
                  /\ tick.status.isEnabled
                  /\ tick.status.canMintNow
                  /\ tick.profit.isProfitable
                  /\ tick.profit.recommendedAmount # 0
                  /\ tick.amount = tick.profit.recommendedAmount)
    /\ [][\A m \in Monitors, id \in 1 .. MaxChecks :
            LET tick == monitor[m].ticks[id]
                tick2 == monitor'[m].ticks[id]
            IN /\ (tick.pc = "getMiningStatus" /\ tick2.pc = "checkProfitability") =>
                     tick2.status = getMiningStatus(Storage)
               /\ (tick.pc # "executeMint" /\ tick2.pc = "executeMint") =>
                     /\ tick.pc = "checkProfitability"
                     /\ tick2.status = tick.status
                     /\ tick2.profit = checkProfitability(Storage)
               /\ (tick.tx # "pending" /\ tick2.tx = "pending") =>
                     /\ tick.tx = "none"
                     /\ tick.pc = "executeMint"
                     /\ tick2.pc = "wait"
                     /\ tick2.amount = tick.amount
               /\ tick.pc = "wait" => tick2.pc \in {"wait", "done"}]_vars

\* A tick has submitted executeMint for the recommended amount and waits
\* for the confirmation.
C21_Witness ==
    \E m \in Monitors, id \in 1 .. MaxChecks :
        /\ monitor[m].ticks[id].pc = "wait"
        /\ monitor[m].ticks[id].tx = "pending"
        /\ monitor[m].ticks[id].amount = config.maxMintAmount
        /\ monitor[m].ticks[id].amount > 0

\* C22: a step of a tick that fails (a view read, the submission of
\* executeMint, the wait for the confirmation, a reverted transaction) adds
\* exactly one to the Monitor's error counter and leaves the process and
\* its loop running; the loop then goes to its sleep and, after it, starts
\* the next tick, unless a shutdown signal ends the process first.
C22_FailureCountedLoopContinues ==
    /\ [][\A m \in Monitors :
            LET failing == FailedTicks(monitor'[m]) \ FailedTicks(monitor[m])
            IN failing # {} =>
                  /\ Cardinality(failing) = 1
                  /\ failing \subseteq ActiveTicks(monitor[m])
                  /\ monitor'[m].stats.errors = monitor[m].stats.errors + 1
                  /\ monitor'[m].proc = "running"
                  /\ monitor'[m].isRunning
                  /\ monitor'[m].loop = "awaitTick"
                  /\ monitor'[m].awaited \in failing]_vars
    /\ \A m \in Monitors, id \in 1 .. MaxChecks - 1 :
          (monitor[m].awaited = id /\ monitor[m].ticks[id].outcome = "failed")
             ~> (monitor[m].loop = "sleep" \/ monitor[m].proc = "exited")
    /\ \A m \in Monitors, id \in 1 .. MaxChecks - 1 :
          (monitor[m].awaited = id /\ monitor[m].ticks[id].outcome = "failed")
             ~> (monitor[m].stats.checksPerformed > id \/ monitor[m].proc = "exited")

\* The second tick of a Monitor has started after its first tick failed.
C22_Witness ==
    \E m \in Monitors :
        /\ monitor[m].proc = "running"
        /\ monitor[m].stats.errors = 1
        /\ monitor[m].stats.checksPerformed = 2
        /\ monitor[m].ticks[2].pc = "getMiningStatus"

MintStats(mon) ==
    <<mon.stats.mintsExecuted, mon.stats.totalTokensMinted, mon.stats.totalETHSpent,
      mon.stats.lastMintTime>>

(* In this step tx.wait() of tick id resolved with a receipt of status 1.  *)
ConfirmedNow(m, id) ==
    /\ monitor[m].ticks[id].pc = "wait"
    /\ monitor[m].ticks[id].tx = "mined"
    /\ monitor[m].ticks[id].receipt.ok
    /\ monitor'[m].ticks[id].pc = "done"
    /\ monitor'[m].ticks[id].outcome # "failed"

MintedEvent(m, id) == FindMinted(monitor[m].ticks[id].receipt.events)

(* The mint statistics move exactly in the steps that confirm a mint with  *)
(* its event; such a step counts one mint and stamps the time.             *)
MintStatsMoveOnConfirmedEvent(m) ==
    /\ MintStats(monitor'[m]) # MintStats(monitor[m]) <=>
          \E id \in 1 .. MaxChecks : ConfirmedNow(m, id) /\ MintedEvent(m, id) # <<>>
    /\ \A id \in 1 .. MaxChecks :
          ConfirmedNow(m, id) /\ MintedEvent(m, id) # <<>> =>
             /\ monitor'[m].stats.mintsExecuted = monitor[m].stats.mintsExecuted + 1
             /\ monitor'[m].stats.lastMintTime = id
             /\ monitor'[m].stats.errors = monitor[m].stats.errors
    /\ \A id \in 1 .. MaxChecks :
          ConfirmedNow(m, id) /\ MintedEvent(m, id) = <<>> =>
             monitor'[m].stats = monitor[m].stats

\* C23 as stated: the mint statistics change in a tick iff its executeMint
\* was confirmed with a TokensMinted event; then the mint counter goes up
\* by one and the units and the cost go up by the event's amount and cost.
C23_StatsAddEventValues ==
    [][\A m \in Monitors :
          /\ MintStatsMoveOnConfirmedEvent(m)
          /\ \A id \in 1 .. MaxChecks :
                ConfirmedNow(m, id) /\ MintedEvent(m, id) # <<>> =>
                   /\ monitor'[m].stats.totalTokensMinted =
                         monitor[m].stats.totalTokensMinted + MintedEvent(m, id)[1].args[2]
                   /\ monitor'[m].stats.totalETHSpent =
                         monitor[m].stats.totalETHSpent + MintedEvent(m, id)[1].args[3]]_vars

\* C23, amended: as above, but the units and the cost go up by the event's
\* amount and cost as JavaScript numbers: each is formatted in ether,
\* parsed as a float and added in float arithmetic, so the totals follow
\* the event's values up to rounding.
C23_StatsAddRoundedEventValues ==
    [][\A m \in Monitors :
          /\ MintStatsMoveOnConfirmedEvent(m)
          /\ \A id \in 1 .. MaxChecks :
                ConfirmedNow(m, id) /\ MintedEvent(m, id) # <<>> =>
                   /\ monitor'[m].stats.totalTokensMinted =
                         RoundToFloat(monitor[m].stats.totalTokensMinted
                                      + RoundToFloat(MintedEvent(m, id)[1].args[2]))
                   /\ monitor'[m].stats.totalETHSpent =
                         RoundToFloat(monitor[m].stats.totalETHSpent
                                      + RoundToFloat(MintedEvent(m, id)[1].args[3]))]_vars

\* A Monitor has counted two mints, one of an amount that is not a float.
C23_Witness ==
    \E m \in Monitors :
        /\ monitor[m].stats.mintsExecuted = 2
        /\ monitor[m].stats.lastMintTime >= 2
        /\ monitor[m].stats.totalETHSpent > 0
        /\ config.maxMintAmount # RoundToFloat(config.maxMintAmount)
        /\ monitor[m].stats.totalTokensMinted # 2 * config.maxMintAmount

\* C24: a shutdown signal only sets the flag the loop reads between ticks:
\* a signal that arrives while a tick is between the submission of
\* executeMint and the processing of its confirmation does not end the
\* process before that tick has returned.
C24_ShutdownCooperative ==
    [][\A m \in Monitors :
          (monitor[m].proc = "running" /\ monitor'[m].proc = "exited"
              /\ monitor'[m].exitCode = 0) =>
             \A id \in 1 .. MaxChecks : monitor[m].ticks[id].pc # "wait"]_vars

\* C25: the process ends with exit code 0 on a shutdown signal and with
\* exit code 1 when initialize() fails; a promise rejection outside the
\* try of the tick ends the process with exit code 1 and never leaves it
\* running.
C25_ExitCodes ==
    [][\A m \in Monitors :
          /\ (monitor[m].proc = "running" /\ monitor'[m].proc = "exited") =>
                /\ monitor'[m].exitCode \in {0, 1}
                /\ monitor'[m].exitCode = 0 => ~monitor'[m].isRunning
          /\ (monitor[m].loop = "initialize" /\ monitor'[m].loop = "off") =>
                /\ monitor'[m].proc = "exited"
                /\ monitor'[m].exitCode = 1
          /\ monitor'[m].rejections # monitor[m].rejections =>
                /\ monitor'[m].proc = "exited"
                /\ monitor'[m].exitCode = 1]_vars

\* C26: two Monitors holding the Manager role have each submitted
\* executeMint; once the call of one has succeeded, the call of the other,
\* mined inside the cooldown window that mint opened, fails with the
\* cooldown error and leaves config, lastMintTimestamp and balance as they
\* were, so the two calls never both succeed; a call mined with the
\* cooldown elapsed does not fail on the cooldown; and the Monitor whose
\* call was reverted counts one error and its loop goes on.
C26_OneMintPerRace ==
    [][\A m \in Monitors :
          /\ (last.op = "none" /\ last'.op = "executeMint" /\ last'.sender = Wallet(m)) =>
                /\ (/\ lastSuccess.sender \notin {"", Wallet(m)}
                    /\ now < lastSuccess.time + config.cooldownPeriod) =>
                      /\ ~last'.ok
                      /\ last'.err = "Cooldown active"
                      /\ last'.events = <<>>
                      /\ <<config', lastMintTimestamp', balance'>>
                            = <<config, lastMintTimestamp, balance>>
                /\ now >= lastMintTimestamp + config.cooldownPeriod =>
                      last'.err # "Cooldown active"
          /\ \A id \in 1 .. MaxChecks :
                (/\ monitor[m].ticks[id].pc = "wait"
                 /\ monitor[m].ticks[id].tx = "mined"
                 /\ ~monitor[m].ticks[id].receipt.ok
                 /\ monitor'[m].ticks[id].pc = "done") =>
                   /\ monitor'[m].stats.errors = monitor[m].stats.errors + 1
                   /\ monitor'[m].stats.mintsExecuted = monitor[m].stats.mintsExecuted
                   /\ monitor'[m].proc = "running"
                   /\ monitor'[m].isRunning
                   /\ monitor'[m].loop = "awaitTick"]_vars

\* Both Monitors had submitted in their first tick; the call of one was
\* mined and succeeded, the call of the other has just been mined in the
\* same block and was reverted on the cooldown, with the balance still
\* covering its cost.
C26_Witness ==
    \E m, n \in Monitors :
        /\ m # n
        /\ lastSuccess.sender = Wallet(m)
        /\ lastSuccess.time = now
        /\ last.op = "executeMint"
        /\ last.sender = Wallet(n)
        /\ last.err = "Cooldown active"
        /\ monitor[n].ticks[1].pc = "wait"
        /\ monitor[n].ticks[1].tx = "mined"
        /\ ~monitor[n].ticks[1].receipt.ok
        /\ monitor[m].stats.checksPerformed = 1
        /\ Pre1 /\ Pre2(monitor[n].ticks[1].amount) /\ Pre5(monitor[n].ticks[1].amount)
        /\ Pre6(monitor[n].ticks[1].amount)

\* C27: a successful emergencyStop leaves autoMiningEnabled false; while it
\* is false no executeMint succeeds and a Manager's executeMint fails with
\* "Auto mining disabled"; and it becomes true again only by a successful
\* updateConfig of an Owner that passes autoMiningEnabled = true, never by
\* a call of an account that is not an Owner and never by time passing.
C27_StoppedUntilOwnerReenables ==
    /\ []((last.op = "emergencyStop" /\ last.ok) => ~config.autoMiningEnabled)
    /\ [][~config.autoMiningEnabled =>
            /\ last'.op = "executeMint" =>
                  /\ ~last'.ok
                  /\ last'.sender \in Managers => last'.err = "Auto mining disabled"
                  /\ <<config', lastMintTimestamp', balance'>>
                        = <<config, lastMintTimestamp, balance>>
            /\ config'.autoMiningEnabled =>
                  /\ last'.op = "updateConfig"
                  /\ last'.ok
                  /\ last'.sender \in Owners
                  /\ last'.events[1].args[5]
            /\ (now' # now \/ last'.sender \notin Owners) => ~config'.autoMiningEnabled]_vars

\* After an emergencyStop, with the cooldown elapsed and the Controller
\* funded, the Manager's executeMint has been refused because mining is
\* disabled.
C27_Witness ==
    /\ last.op = "executeMint"
    /\ last.sender \in Managers
    /\ last.err = "Auto mining disabled"
    /\ ~config.autoMiningEnabled
    /\ balance > 0
    /\ Pre3

\* C28: a tick reads getMiningStatus first, returns if mining is disabled,
\* returns if canMintNow is false, and only then queries
\* checkProfitability: no tick whose getMiningStatus answered
\* canMintNow = false has a checkProfitability query under way.
C28_NoProfitabilityQueryInCooldown ==
    \A m \in Monitors, id \in 1 .. MaxChecks :
        monitor[m].ticks[id].pc = "checkProfitability" =>
            /\ monitor[m].ticks[id].status.isEnabled
            /\ monitor[m].ticks[id].status.canMintNow

(* The views advise a mint in the current state. *)
ViewsAdviseMint ==
    /\ getMiningStatus(Storage).isEnabled
    /\ getMiningStatus(Storage).canMintNow
    /\ checkProfitability(Storage).isProfitable
    /\ checkProfitability(Storage).recommendedAmount > 0

ViewGuardedFailures ==
    {"Auto mining disabled", "Amount out of bounds", "Cooldown active", "Price too high"}

\* C29: in a state in which getMiningStatus answers isEnabled and canMintNow
\* and checkProfitability answers isProfitable with a recommendedAmount
\* above zero, a Manager's executeMint of that amount never fails on the
\* enabled, amount-bounds, cooldown or per-unit-price precondition; with a
\* Rig that accepts the mint it succeeds or fails at the gas-price
\* precondition or at the balance precondition.
C29_ViewsMirrorGuard ==
    (Idle /\ ViewsAdviseMint) =>
        \A sender \in Managers, recipient \in MintRecipients, gasprice \in GasPriceInputs,
           rigReverts \in BOOLEAN :
            LET r == executeMint(Storage, sender, recipient,
                                 checkProfitability(Storage).recommendedAmount,
                                 gasprice, rigReverts, FALSE)
            IN /\ r.err \notin ViewGuardedFailures
               /\ ~rigReverts =>
                     \/ r.ok
                     \/ r.err \in {"Gas price too high", "Insufficient ETH balance"}
                     \/ r.err = Overflow /\ MulOverflows(config.maxGasPrice, GWEI)

\* The views advise a mint after an earlier mint and its cooldown, at a
\* price equal to the ceiling, and the Controller can pay for it.
C29_Witness ==
    /\ Idle
    /\ ViewsAdviseMint
    /\ lastMintTimestamp > 0
    /\ currentPrice = config.maxPricePerToken
    /\ quote(checkProfitability(Storage).recommendedAmount) <= balance
    /\ balance > 0

(* The ETH a call sent out of the Controller, in all. *)
RECURSIVE Total(_)
Total(sent) == IF sent = <<>> THEN 0 ELSE sent[1].value + Total(Tail(sent))

\* C30: the balance goes down only in a successful executeMint, by the
\* cost the Rig quoted for the amount, sent to the Rig, or in a successful
\* withdrawETH of an Owner, by the resolved amount, sent to the recipient
\* of the call; every call debits the balance by what it sent; and a call
\* of an account that is not an Owner sends ETH to no address but the Rig.
C30_FundsLeaveByMintOrOwnerWithdrawal ==
    [][/\ balance' < balance =>
             /\ last.op = "none"
             /\ last'.ok
             /\ \/ /\ last'.op = "executeMint"
                   /\ last'.sender \in Managers
                   /\ last'.events[1].name = "TokensMinted"
                   /\ last'.sent = <<[to |-> franchiserRig,
                                      value |-> quote(last'.events[1].args[2])]>>
                \/ /\ last'.op = "withdrawETH"
                   /\ last'.sender \in Owners
                   /\ last'.events[Len(last'.events)].name = "ETHWithdrawn"
                   /\ last'.sent = <<[to |-> last'.events[Len(last'.events)].args[1],
                                      value |-> last'.events[Len(last'.events)].args[2]]>>
                   /\ last'.sent[1].to # ZeroAddress
       /\ last'.op # "none" => balance' = balance - Total(last'.sent)
       /\ (last'.op # "none" /\ last'.sender \notin Owners) =>
             \A i \in 1 .. Len(last'.sent) : last'.sent[i].to = franchiserRig]_vars

\* The Manager has minted and, after it, the Owner has withdrawn what was
\* left to a recipient.
C30_Witness ==
    /\ last.op = "withdrawETH"
    /\ last.ok
    /\ last.sent # <<>>
    /\ last.sent[1].to = "user"
    /\ lastMintTimestamp > 0
    /\ balance < last.before.balance

NamedGuardFailures ==
    {"Auto mining disabled", "Amount out of bounds", "Cooldown active", "Gas price too high",
     "Insufficient ETH balance", "Price too high"}

\* C31: between transactions, an executeMint of amount 0 by any caller, at
\* any gas price, fails and leaves config, lastMintTimestamp and balance as
\* they were; when minMintAmount is 0 and the Manager's call passes the
\* enabled, cooldown and gas-price checks, it passes the amount bounds and
\* the balance check and fails in the division by amount, which is none of
\* the six guard failures; and every call that failed in that division was
\* made under minMintAmount = 0 and changed nothing.
C31_ZeroAmountNeverMints ==
    /\ Idle =>
          \A sender \in Accounts, recipient \in MintRecipients, gasprice \in GasPriceInputs,
             rigReverts \in BOOLEAN :
              LET r == executeMint(Storage, sender, recipient, 0, gasprice, rigReverts, FALSE)
              IN /\ ~r.ok
                 /\ r.w = Storage
                 /\ r.events = <<>>
                 /\ r.sent = <<>>
                 /\ (sender \in Managers /\ config.minMintAmount = 0
                        /\ Pre1 /\ Pre3 /\ Pre4(gasprice)) =>
                       /\ r.err = DivisionByZero
                       /\ r.err \notin NamedGuardFailures
                 /\ (sender \in Managers /\ config.minMintAmount > 0 /\ Pre1) =>
                       r.err = "Amount out of bounds"
    /\ last.err = DivisionByZero =>
          /\ last.op = "executeMint"
          /\ ~last.ok
          /\ last.events = <<>>
          /\ Unchanged
          /\ last.before.config.minMintAmount = 0

\* With minMintAmount set to 0 by the Owner and the Controller funded, the
\* Manager's executeMint has failed in the division by amount.
C31_Witness ==
    /\ last.op = "executeMint"
    /\ last.sender \in Managers
    /\ last.err = DivisionByZero
    /\ config.minMintAmount = 0
    /\ balance > 0

====
